---- MODULE Spec2Model ----
(***************************************************************************)
(* A model of mvgutils/intrinsics.py: the camera-model registry, the       *)
(* Intrinsics constructor and accessors, scale / resize / crop, the        *)
(* projection pipeline, the distortion models, the Newton undistortion     *)
(* solver and the rectification planner.                                   *)
(*                                                                         *)
(* Numbers.  Python ints are TLA+ integers.  A float64 is modelled as a    *)
(* decimal floating-point number <<m, e>> of value m * 10^e whose          *)
(* significand m has exactly 8 digits (10^7 <= |m| < 10^8), or            *)
(* <<0, 0>> for zero: every operation rounds its exact result to 8         *)
(* significant digits the way float64 rounds to 53 bits, so 1.0 * x = x,   *)
(* x + 0.0 = x and x - x = 0 hold exactly while products, quotients and    *)
(* sums of unlike magnitude round.  <<0, NonFinite>> stands for the        *)
(* non-finite values (inf, nan) a numpy division by zero yields.           *)
(***************************************************************************)
EXTENDS Integers, Sequences, FiniteSets

----------------------------------------------------------------------------
(* Decimal floating point *)

MantMin == 10^7
MantMax == 10^8
Limb == 10^4
NonFinite == 10^4 - 1

Abs(n) == IF n < 0 THEN -n ELSE n
Sgn(n) == IF n < 0 THEN -1 ELSE IF n > 0 THEN 1 ELSE 0

Pow10(d) ==
  CASE d = 0 -> 1 [] d = 1 -> 10 [] d = 2 -> 100 [] d = 3 -> 1000
    [] d = 4 -> 10000 [] d = 5 -> 100000 [] d = 6 -> 1000000
    [] d = 7 -> 10000000 [] d = 8 -> 100000000 [] d = 9 -> 1000000000

FZero == <<0, 0>>
FNaN == <<0, NonFinite>>
IsFinite(a) == a[2] # NonFinite

\* Round n / 10^d to the nearest integer, halves away from zero (n >= 0).
RoundShift(n, d) ==
  IF d = 0 THEN n
  ELSE IF d > 9 THEN 0
  ELSE (n \div Pow10(d)) + (IF (n % Pow10(d)) * 2 >= Pow10(d) THEN 1 ELSE 0)

\* The 8-digit float nearest to n * 10^e, n >= 0 below 2^31.
RECURSIVE NormPos(_, _)
NormPos(n, e) ==
  IF n = 0 THEN FZero
  ELSE IF n < MantMin THEN NormPos(n * 10, e - 1)
  ELSE IF n >= MantMax THEN NormPos(RoundShift(n, 1), e + 1)
  ELSE <<n, e>>

Norm(n, e) ==
  IF n < 0 THEN <<-(NormPos(-n, e)[1]), NormPos(-n, e)[2]>> ELSE NormPos(n, e)

\* A Python int, or a decimal literal n * 10^e, as a float64.
FromInt(n) == Norm(n, 0)
Dec(n, e) == Norm(n, e)

FNeg(a) == <<-a[1], a[2]>>

FAddFinite(a, b) ==
  IF a[1] = 0 THEN b
  ELSE IF b[1] = 0 THEN a
  ELSE LET big == IF a[2] >= b[2] THEN a ELSE b
           small == IF a[2] >= b[2] THEN b ELSE a
           d == big[2] - small[2]
       IN IF d > 9 THEN big
          ELSE LET A == big[1] * 10
                   B == Sgn(small[1]) * RoundShift(Abs(small[1]) * 10, d)
               IN Norm(A + B, big[2] - 1)

FAdd(a, b) == IF IsFinite(a) /\ IsFinite(b) THEN FAddFinite(a, b) ELSE FNaN
FSub(a, b) == FAdd(a, FNeg(b))

\* |a| * |b| from 4-digit limbs, so that no intermediate exceeds 2^31.
FMulMag(A, B, e) ==
  LET ah == A \div Limb
      al == A % Limb
      bh == B \div Limb
      bl == B % Limb
      cross == ah * bl + al * bh
      lo == (cross % Limb) * Limb + al * bl
      hi == ah * bh + (cross \div Limb) + (lo \div MantMax)
      lo8 == lo % MantMax
  IN IF hi >= MantMin
       THEN NormPos(hi + (IF lo8 * 2 >= MantMax THEN 1 ELSE 0), e + 8)
       ELSE NormPos(hi * 10 + RoundShift(lo8, 7), e + 7)

FMul(a, b) ==
  IF ~(IsFinite(a) /\ IsFinite(b)) THEN FNaN
  ELSE IF a[1] = 0 \/ b[1] = 0 THEN FZero
  ELSE LET r == FMulMag(Abs(a[1]), Abs(b[1]), a[2] + b[2])
       IN <<Sgn(a[1]) * Sgn(b[1]) * r[1], r[2]>>

\* Long division: k more decimal digits of (q + r / B).
RECURSIVE DivDigits(_, _, _, _)
DivDigits(q, r, B, k) ==
  IF k = 0 THEN q + (IF r * 2 >= B THEN 1 ELSE 0)
  ELSE DivDigits(q * 10 + ((r * 10) \div B), (r * 10) % B, B, k - 1)

\* a / b for b # 0.
FDivFinite(a, b) ==
  IF a[1] = 0 THEN FZero
  ELSE LET A == Abs(a[1])
           B == Abs(b[1])
           pre == IF A >= B THEN 7 ELSE 8
           q == DivDigits(A \div B, A % B, B, pre)
           r == NormPos(q, a[2] - b[2] - pre)
       IN <<Sgn(a[1]) * Sgn(b[1]) * r[1], r[2]>>

\* numpy's float64 division: a zero divisor yields inf or nan, not an error.
FDiv(a, b) ==
  IF ~(IsFinite(a) /\ IsFinite(b)) \/ b[1] = 0 THEN FNaN ELSE FDivFinite(a, b)

FLt(a, b) ==
  IF Sgn(a[1]) # Sgn(b[1]) THEN Sgn(a[1]) < Sgn(b[1])
  ELSE IF a[1] = 0 THEN FALSE
  ELSE IF a[1] > 0
    THEN a[2] < b[2] \/ (a[2] = b[2] /\ a[1] < b[1])
    ELSE a[2] > b[2] \/ (a[2] = b[2] /\ a[1] < b[1])

FLe(a, b) == a = b \/ FLt(a, b)
FMax(a, b) == IF FLt(a, b) THEN b ELSE a
FMin(a, b) == IF FLt(b, a) THEN b ELSE a
FAbs(a) == <<Abs(a[1]), a[2]>>

\* Python's int(): truncation toward zero.
FTrunc(a) ==
  IF a[2] >= 0 THEN a[1] * Pow10(a[2])
  ELSE IF a[2] < -8 THEN 0
  ELSE Sgn(a[1]) * (Abs(a[1]) \div Pow10(-a[2]))

----------------------------------------------------------------------------
(* SUPPORTED_CAMERA_MODELS: the registry.  Strings the code takes apart     *)
(* (params_str, and the model name searched for 'SIMPLE') are sequences of  *)
(* characters.                                                              *)

SUPPORTED_CAMERA_MODELS ==
  {"SIMPLE_PINHOLE", "PINHOLE", "SIMPLE_RADIAL", "RADIAL", "OPENCV",
   "OPENCV_FISHEYE", "FULL_OPENCV", "FOV", "OPENCV5", "UNKNOWN"}

n_params(kind) ==
  CASE kind = "SIMPLE_PINHOLE" -> 3
    [] kind = "PINHOLE" -> 4
    [] kind = "SIMPLE_RADIAL" -> 4
    [] kind = "RADIAL" -> 5
    [] kind = "OPENCV" -> 8
    [] kind = "OPENCV_FISHEYE" -> 8
    [] kind = "FULL_OPENCV" -> 12
    [] kind = "FOV" -> 5
    [] kind = "OPENCV5" -> 9
    [] kind = "UNKNOWN" -> 0

params_str(kind) ==
  CASE kind = "SIMPLE_PINHOLE" ->
         <<"f", ",", " ", "c", "x", ",", " ", "c", "y">>
    [] kind = "PINHOLE" ->
         <<"f", "x", ",", " ", "f", "y", ",", " ", "c", "x", ",", " ", "c",
           "y">>
    [] kind = "SIMPLE_RADIAL" ->
         <<"f", ",", " ", "c", "x", ",", " ", "c", "y", ",", " ", "k">>
    [] kind = "RADIAL" ->
         <<"f", ",", " ", "c", "x", ",", " ", "c", "y", ",", " ", "k", "1",
           ",", " ", "k", "2">>
    [] kind = "OPENCV" ->
         <<"f", "x", ",", " ", "f", "y", ",", " ", "c", "x", ",", " ", "c",
           "y", ",", " ", "k", "1", ",", " ", "k", "2", ",", " ",
           "p", "1", ",", " ", "p", "2">>
    [] kind = "OPENCV_FISHEYE" ->
         <<"f", "x", ",", " ", "f", "y", ",", " ", "c", "x", ",", " ", "c",
           "y", ",", " ", "k", "1", ",", " ", "k", "2", ",", " ",
           "k", "3", ",", " ", "k", "4">>
    [] kind = "FULL_OPENCV" ->
         <<"f", "x", ",", " ", "f", "y", ",", " ", "c", "x", ",", " ", "c",
           "y", ",", " ", "k", "1", ",", " ", "k", "2", ",", " ",
           "p", "1", ",", " ", "p", "2", ",", " ", "k", "3", ",",
           " ", "k", "4", ",", " ", "k", "5", ",", " ", "k", "6">>
    [] kind = "FOV" ->
         <<"f", "x", ",", " ", "f", "y", ",", " ", "c", "x", ",", " ", "c",
           "y", ",", " ", "o", "m", "e", "g", "a">>
    [] kind = "OPENCV5" ->
         <<"f", "x", ",", " ", "f", "y", ",", " ", "c", "x", ",", " ", "c",
           "y", ",", " ", "k", "1", ",", " ", "k", "2", ",", " ",
           "p", "1", ",", " ", "p", "2", ",", " ", "k", "3">>
    [] kind = "UNKNOWN" ->
         <<"[", "]">>

NameChars(kind) ==
  CASE kind = "SIMPLE_PINHOLE" ->
         <<"S", "I", "M", "P", "L", "E", "_", "P", "I", "N", "H", "O", "L",
           "E">>
    [] kind = "PINHOLE" ->
         <<"P", "I", "N", "H", "O", "L", "E">>
    [] kind = "SIMPLE_RADIAL" ->
         <<"S", "I", "M", "P", "L", "E", "_", "R", "A", "D", "I", "A", "L">>
    [] kind = "RADIAL" ->
         <<"R", "A", "D", "I", "A", "L">>
    [] kind = "OPENCV" ->
         <<"O", "P", "E", "N", "C", "V">>
    [] kind = "OPENCV_FISHEYE" ->
         <<"O", "P", "E", "N", "C", "V", "_", "F", "I", "S", "H", "E", "Y",
           "E">>
    [] kind = "FULL_OPENCV" ->
         <<"F", "U", "L", "L", "_", "O", "P", "E", "N", "C", "V">>
    [] kind = "FOV" ->
         <<"F", "O", "V">>
    [] kind = "OPENCV5" ->
         <<"O", "P", "E", "N", "C", "V", "5">>
    [] kind = "UNKNOWN" ->
         <<"U", "N", "K", "N", "O", "W", "N">>
    [] OTHER -> <<>>

\* str.split(sep): the pieces of s between the occurrences of sep; one piece
\* more than there are separators, so never an empty list.
RECURSIVE SplitFrom(_, _, _, _)
SplitFrom(s, sep, i, cur) ==
  IF i > Len(s) THEN <<cur>>
  ELSE IF s[i] = sep THEN <<cur>> \o SplitFrom(s, sep, i + 1, <<>>)
  ELSE SplitFrom(s, sep, i + 1, Append(cur, s[i]))

Split(s, sep) == SplitFrom(s, sep, 1, <<>>)

\* str.strip(): leading and trailing blanks removed.
RECURSIVE Strip(_)
Strip(s) ==
  IF s = <<>> THEN s
  ELSE IF Head(s) = " " THEN Strip(Tail(s))
  ELSE IF s[Len(s)] = " " THEN Strip(SubSeq(s, 1, Len(s) - 1))
  ELSE s

\* param_names = [p.strip() for p in params_str.split(',')]
param_names(kind) ==
  LET parts == Split(params_str(kind), ",")
  IN [i \in 1..Len(parts) |-> Strip(parts[i])]

\* Python's `sub in s` on strings.
Contains(s, sub) ==
  \E i \in 0..(Len(s) - Len(sub)) : SubSeq(s, i + 1, i + Len(sub)) = sub

is_single_focal_lenght(kind) ==
  Contains(NameChars(kind), <<"S", "I", "M", "P", "L", "E">>)

----------------------------------------------------------------------------
(* Intrinsics: the constructor and the accessors.  An object is a record;   *)
(* a call's outcome is [err |-> "none", ret |-> ...] or [err |-> <raised>].  *)

ErrNotRecognized == "ValueError: not recognized as colmap camera model"
ErrParamCount == "ValueError: expectes n parameters but got m"
ErrLinAlg == "LinAlgError: Singular matrix"
ErrUnbound == "UnboundLocalError"
ErrZeroDivision == "ZeroDivisionError"
ErrOpenCvDistort == "ValueError: distort_points can not be used for OpenCv models"
ErrNotImplemented == "ValueError: distort_points not impelmented"

Raise(e) == [err |-> e]
Return(v) == [err |-> "none", ret |-> v]

camera_matrix_components ==
  {<<"f">>, <<"f", "x">>, <<"f", "y">>, <<"c", "x">>, <<"c", "y">>}

\* The loop of _set_params over zip(param_names, params): cp and dlist after
\* the first n pairs.
RECURSIVE SetParamsLoop(_, _, _)
SetParamsLoop(names, params, n) ==
  IF n = 0
    THEN [fx |-> FZero, fy |-> FZero, cx |-> FZero, cy |-> FZero, dlist |-> <<>>]
    ELSE LET s == SetParamsLoop(names, params, n - 1)
             name == names[n]
             val == params[n]
         IN IF name \notin camera_matrix_components
              THEN [s EXCEPT !.dlist = Append(@, val)]
            ELSE IF name = <<"f">> THEN [s EXCEPT !.fx = val, !.fy = val]
            ELSE IF name = <<"f", "x">> THEN [s EXCEPT !.fx = val]
            ELSE IF name = <<"f", "y">> THEN [s EXCEPT !.fy = val]
            ELSE IF name = <<"c", "x">> THEN [s EXCEPT !.cx = val]
            ELSE [s EXCEPT !.cy = val]

\* _set_params: the count check again, K and the distortion vector;
\* np.linalg.inv(K) raises on a singular K (K is upper triangular with
\* diagonal fx, fy, 1, 1).
set_params(camera_model_name, width, height, params) ==
  LET names == param_names(camera_model_name)
      s == SetParamsLoop(names, params, Len(names))
  IN IF Len(names) # Len(params) THEN Raise(ErrParamCount)
     ELSE IF s.fx = FZero \/ s.fy = FZero THEN Raise(ErrLinAlg)
     ELSE Return([camera_model_name |-> camera_model_name,
                  w |-> width, h |-> height,
                  fx |-> s.fx, fy |-> s.fy, cx |-> s.cx, cy |-> s.cy,
                  distortions |-> s.dlist])

\* Intrinsics.__init__
Intrinsics(camera_model_name, width, height, params) ==
  IF camera_model_name \notin SUPPORTED_CAMERA_MODELS
    THEN Raise(ErrNotRecognized)
  ELSE IF Len(param_names(camera_model_name)) # Len(params)
    THEN Raise(ErrParamCount)
  ELSE set_params(camera_model_name, width, height, params)

\* The params property.
params_of(self) ==
  (IF is_single_focal_lenght(self.camera_model_name)
     THEN <<self.fx, self.cx, self.cy>>
     ELSE <<self.fx, self.fy, self.cx, self.cy>>) \o self.distortions

_get_params_to_new_cx_cy_fx_fy(self, new_cx, new_cy, new_fx, new_fy) ==
  (IF is_single_focal_lenght(self.camera_model_name)
     THEN <<new_fx, new_cx, new_cy>>
     ELSE <<new_fx, new_fy, new_cx, new_cy>>) \o self.distortions

----------------------------------------------------------------------------
(* scale, resize, crop *)

Half == Dec(5, -1)

\* scale returning a PINHOLE camera, the way get_undistort_camera does.
scale_to_pinhole(self, scale_by) ==
  LET scale_w == scale_by[1]
      scale_h == scale_by[2]
      new_width == FTrunc(FAdd(FMul(FromInt(self.w), scale_w), Half))
      new_height == FTrunc(FAdd(FMul(FromInt(self.h), scale_h), Half))
      fx == FMul(self.fx, scale_w)
      fy == FMul(self.fy, scale_h)
      cx == FMul(self.cx, scale_w)
      cy == FMul(self.cy, scale_h)
  IN Intrinsics("PINHOLE", new_width, new_height, <<fx, fy, cx, cy>>)

\* scale_by is a pair of floats.
scale(self, scale_by) ==
  LET scale_w == scale_by[1]
      scale_h == scale_by[2]
      new_width == FTrunc(FAdd(FMul(FromInt(self.w), scale_w), Half))
      new_height == FTrunc(FAdd(FMul(FromInt(self.h), scale_h), Half))
      fx == FMul(self.fx, scale_w)
      fy == FMul(self.fy, scale_h)
      cx == FMul(self.cx, scale_w)
      cy == FMul(self.cy, scale_h)
  IN Intrinsics(self.camera_model_name, new_width, new_height,
                _get_params_to_new_cx_cy_fx_fy(self, cx, cy, fx, fy))

\* new_size is a pair of ints; int / int raises on a zero divisor.
resize(self, new_size) ==
  IF self.w = 0 \/ self.h = 0 THEN Raise(ErrZeroDivision)
  ELSE scale(self, <<FDiv(FromInt(new_size[1]), FromInt(self.w)),
                     FDiv(FromInt(new_size[2]), FromInt(self.h))>>)

\* top_left is a pair of floats, crop_size a pair of ints.
crop(self, top_left, crop_size) ==
  LET new_cx == FSub(self.cx, top_left[1])
      new_cy == FSub(self.cy, top_left[2])
  IN Intrinsics(self.camera_model_name, crop_size[1], crop_size[2],
                _get_params_to_new_cx_cy_fx_fy(self, new_cx, new_cy,
                                               self.fx, self.fx))

----------------------------------------------------------------------------
(* Projection pipeline and distortion models.  A batch of points (an        *)
(* ndarray of shape (N, 2) or (N, 3)) is a sequence of tuples of floats.     *)
(* A value the code binds once and reads several times is passed on as an   *)
(* operator argument.                                                       *)

One == FromInt(1)
Two == FromInt(2)

\* eps of project_points
ProjEps == Dec(1, -3)

\* One point of project_points, given its disparity.
ProjectOne(p, eps, disparity) ==
  [p2d |-> <<FMul(p[1], disparity), FMul(p[2], disparity)>>,
   disparity |-> disparity,
   valid |-> FLt(eps, p[3])]

\* The three arrays project_points returns, from the per-point results.
ProjectBatch(r) ==
  [p2d |-> [i \in DOMAIN r |-> r[i].p2d],
   disparity |-> [i \in DOMAIN r |-> r[i].disparity],
   valid |-> [i \in DOMAIN r |-> r[i].valid]]

\* project_points without `z = z.clip(min=eps)`.
project_points_unclipped(self, pc3d) ==
  LET eps == ProjEps
  IN ProjectBatch([i \in DOMAIN pc3d |->
                     ProjectOne(pc3d[i], eps, FDiv(One, pc3d[i][3]))])

project_points(self, pc3d) ==
  LET eps == ProjEps
  IN ProjectBatch([i \in DOMAIN pc3d |->
                     ProjectOne(pc3d[i], eps, FDiv(One, FMax(pc3d[i][3], eps)))])

\* xu = a * xd, yu = a * yd
RadialScale(a, xd, yd) == <<FMul(a, xd), FMul(a, yd)>>

\* r2 = x2 + y2
R2(xd, yd) == FAdd(FMul(xd, xd), FMul(yd, yd))

\* SIMPLE_RADIAL: a = 1.0 + k1*r2
DistortSimpleRadial(d, p) ==
  RadialScale(FAdd(One, FMul(d[1], R2(p[1], p[2]))), p[1], p[2])

\* RADIAL: a = 1.0 + k1*r2 + k2*r4
RadialFactor(k1, k2, r2) ==
  FAdd(FAdd(One, FMul(k1, r2)), FMul(k2, FMul(r2, r2)))

DistortRadial(d, p) ==
  RadialScale(RadialFactor(d[1], d[2], R2(p[1], p[2])), p[1], p[2])

\* OPENCV5: a = 1.0 + k1*r2 + k2*r4 + k3*r6
OpenCv5Factor(k1, k2, k3, r2, r4) ==
  FAdd(FAdd(FAdd(One, FMul(k1, r2)), FMul(k2, r4)), FMul(k3, FMul(r2, r4)))

\* xu = a*xd + 2.0*p1*xy + p2*(r2 + 2.0*x2)
\* yu = a*yd + p1*(r2 + 2.0*y2) + 2.0*p2*xy
OpenCv5Point(p1, p2, xd, yd, x2, y2, xy, r2, a) ==
  <<FAdd(FAdd(FMul(a, xd), FMul(FMul(Two, p1), xy)),
         FMul(p2, FAdd(r2, FMul(Two, x2)))),
    FAdd(FAdd(FMul(a, yd), FMul(p1, FAdd(r2, FMul(Two, y2)))),
         FMul(FMul(Two, p2), xy))>>

OpenCv5WithR2(d, xd, yd, x2, y2, xy, r2) ==
  OpenCv5Point(d[3], d[4], xd, yd, x2, y2, xy, r2,
               OpenCv5Factor(d[1], d[2], d[5], r2, FMul(r2, r2)))

OpenCv5WithSquares(d, xd, yd, x2, y2, xy) ==
  OpenCv5WithR2(d, xd, yd, x2, y2, xy, FAdd(x2, y2))

DistortOpenCv5(d, p) ==
  OpenCv5WithSquares(d, p[1], p[2], FMul(p[1], p[1]), FMul(p[2], p[2]),
                     FMul(p[1], p[2]))

OpenCvKinds == {"OPENCV", "FULL_OPENCV", "OPENCV_FISHEYE"}

\* The model distort_points applies to each point, for the kinds it implements.
DistortOne(self, p) ==
  IF self.camera_model_name = "SIMPLE_RADIAL"
    THEN DistortSimpleRadial(self.distortions, p)
  ELSE IF self.camera_model_name = "RADIAL"
    THEN DistortRadial(self.distortions, p)
  ELSE DistortOpenCv5(self.distortions, p)

\* distort_points without its branch for the OpenCv models.
distort_points_no_opencv_branch(self, p_cam_undistorted) ==
  IF Len(self.distortions) = 0 THEN Raise(ErrUnbound)
  ELSE IF self.camera_model_name \in {"SIMPLE_RADIAL", "RADIAL", "OPENCV5"}
    THEN Return([i \in DOMAIN p_cam_undistorted |->
                   DistortOne(self, p_cam_undistorted[i])])
  ELSE Raise(ErrNotImplemented)

\* distort_points: the zero-length branch returns p_cam_distorted, a local
\* that is not yet bound there.
distort_points(self, p_cam_undistorted) ==
  IF Len(self.distortions) = 0 THEN Raise(ErrUnbound)
  ELSE IF self.camera_model_name \in OpenCvKinds THEN Raise(ErrOpenCvDistort)
  ELSE IF self.camera_model_name \in {"SIMPLE_RADIAL", "RADIAL", "OPENCV5"}
    THEN Return([i \in DOMAIN p_cam_undistorted |->
                   DistortOne(self, p_cam_undistorted[i])])
  ELSE Raise(ErrNotImplemented)

\* <<x, y, 1>> . <<m1, m2, m3>>, one row of the matrix product.
Row3(x, y, m1, m2, m3) == FAdd(FAdd(FMul(x, m1), FMul(y, m2)), FMul(One, m3))

\* [x, y, 1] @ K_3.T without the last column.
to_image_points(self, pc_distorted) ==
  [i \in DOMAIN pc_distorted |->
     <<Row3(pc_distorted[i][1], pc_distorted[i][2], self.fx, FZero, self.cx),
       Row3(pc_distorted[i][1], pc_distorted[i][2], FZero, self.fy, self.cy)>>]

\* K_3_inv = inv(K[:3,:3]) = [[1/fx, 0, -cx/fx], [0, 1/fy, -cy/fy], [0, 0, 1]]
\* and [u, v, 1] @ K_3_inv.T without the last column.
to_camera_points(self, pu) ==
  LET ifx == FDiv(One, self.fx)
      ify == FDiv(One, self.fy)
      icx == FNeg(FDiv(self.cx, self.fx))
      icy == FNeg(FDiv(self.cy, self.fy))
  IN [i \in DOMAIN pu |->
        <<Row3(pu[i][1], pu[i][2], ifx, FZero, icx),
          Row3(pu[i][1], pu[i][2], FZero, ify, icy)>>]

\* cv2.projectPoints(pc3d, rvec = 0, tvec = 0, K = eye(3), distCoeffs): the
\* library's pinhole projection with its rational radial and tangential
\* distortion (k1, k2, p1, p2, k3, k4, k5, k6; absent coefficients are 0).
Coef(d, i) == IF i <= Len(d) THEN d[i] ELSE FZero

Cubic(c1, c2, c3, r2, r4) ==
  FAdd(FAdd(FAdd(One, FMul(c1, r2)), FMul(c2, r4)), FMul(c3, FMul(r4, r2)))

CvPoint(d, x, y, a1, a2, a3, c) ==
  <<FAdd(FAdd(FMul(x, c), FMul(Coef(d, 3), a1)), FMul(Coef(d, 4), a2)),
    FAdd(FAdd(FMul(y, c), FMul(Coef(d, 3), a3)), FMul(Coef(d, 4), a1))>>

CvWithR4(d, x, y, x2, y2, xy, r2, r4) ==
  CvPoint(d, x, y, FMul(Two, xy), FAdd(r2, FMul(Two, x2)),
          FAdd(r2, FMul(Two, y2)),
          FMul(Cubic(Coef(d, 1), Coef(d, 2), Coef(d, 5), r2, r4),
               FDiv(One, Cubic(Coef(d, 6), Coef(d, 7), Coef(d, 8), r2, r4))))

CvWithR2(d, x, y, x2, y2, xy, r2) ==
  CvWithR4(d, x, y, x2, y2, xy, r2, FMul(r2, r2))

CvWithSquares(d, x, y, x2, y2, xy) ==
  CvWithR2(d, x, y, x2, y2, xy, FAdd(x2, y2))

CvNormalized(d, x, y) ==
  CvWithSquares(d, x, y, FMul(x, x), FMul(y, y), FMul(x, y))

CvProjectOne(d, p, iz) == CvNormalized(d, FMul(p[1], iz), FMul(p[2], iz))

cv2_projectPoints(pc3d, d) ==
  [i \in DOMAIN pc3d |->
     CvProjectOne(d, pc3d[i],
                  IF pc3d[i][3][1] = 0 THEN One ELSE FDiv(One, pc3d[i][3]))]

\* The return of project_and_distort_points: the distorted points with the
\* disparity and validity of project_points.
WithProjection(pr, dp) ==
  IF dp.err # "none" THEN dp
  ELSE Return([p2d |-> dp.ret, disparity |-> pr.disparity, valid |-> pr.valid])

\* project_and_distort_points: the OPENCV_FISHEYE branch reads pimage_cv,
\* which only the other branch binds.
project_and_distort_points(self, pc3d) ==
  IF self.camera_model_name \in {"OPENCV", "FULL_OPENCV"}
    THEN WithProjection(project_points(self, pc3d),
                        Return(cv2_projectPoints(pc3d, self.distortions)))
  ELSE IF self.camera_model_name = "OPENCV_FISHEYE" THEN Raise(ErrUnbound)
  ELSE WithProjection(project_points(self, pc3d),
                      distort_points(self, project_points(self, pc3d).p2d))

ToImage(self, pd) ==
  IF pd.err # "none" THEN pd
  ELSE Return([pd.ret EXCEPT !.p2d = to_image_points(self, @)])

camera2image_points(self, pc3d) == ToImage(self, project_and_distort_points(self, pc3d))

----------------------------------------------------------------------------
(* undistort: 17 Newton iterations with a numerical Jacobian.               *)

kNumIterations == 17
\* np.finfo(np.float64).eps: the spacing of the floats at 1.0
MachEps == Dec(1, -7)
kRelStepSize == Dec(1, -6)

\* The solution of the 2x2 system, put back in the order of the columns.
Inv2Arrange(e1, e2, f1, f2, swapped) ==
  IF swapped THEN <<<<e1, f1>>, <<e2, f2>>>> ELSE <<<<f1, e1>>, <<f2, e2>>>>

Inv2Solve(a, b, l, u22, e2, f2, swapped) ==
  Inv2Arrange(FDiv(FNeg(FMul(b, e2)), a), e2,
              FDiv(FSub(One, FMul(b, f2)), a), f2, swapped)

Inv2Pivot(a, b, l, u22, swapped) ==
  IF u22[1] = 0 THEN "singular"
  ELSE Inv2Solve(a, b, l, u22, FDiv(One, u22), FDiv(FNeg(l), u22), swapped)

Inv2Eliminate(a, b, d, l, swapped) ==
  Inv2Pivot(a, b, l, FSub(d, FMul(l, b)), swapped)

\* np.linalg.inv of the 2x2 matrix with rows (a, b), (c, d), |a| >= |c|, as
\* the LU factorisation computes it; "singular" on a zero pivot.
Inv2LU(a, b, c, d, swapped) ==
  IF a[1] = 0 THEN "singular" ELSE Inv2Eliminate(a, b, d, FDiv(c, a), swapped)

\* Partial pivoting: the row with the larger first entry comes first.
Inv2(J) ==
  IF FLt(FAbs(J[1][1]), FAbs(J[2][1]))
    THEN Inv2LU(J[2][1], J[2][2], J[1][1], J[1][2], TRUE)
    ELSE Inv2LU(J[1][1], J[1][2], J[2][1], J[2][2], FALSE)

\* J from the four perturbed evaluations of distort_points.
JacobianFrom(dx_0b, dx_0f, dx_1b, dx_1f, h0, h1) ==
  <<<<FAdd(One, FDiv(FSub(dx_0f[1], dx_0b[1]), h0)),
      FDiv(FSub(dx_1f[1], dx_1b[1]), h1)>>,
    <<FDiv(FSub(dx_0f[2], dx_0b[2]), h0),
      FAdd(One, FDiv(FSub(dx_1f[2], dx_1b[2]), h1))>>>>

JacobianWithSteps(self, x0, x1, step0, step1) ==
  JacobianFrom(DistortOne(self, <<FSub(x0, step0), x1>>),
               DistortOne(self, <<FAdd(x0, step0), x1>>),
               DistortOne(self, <<x0, FSub(x1, step1)>>),
               DistortOne(self, <<x0, FAdd(x1, step1)>>),
               FMul(Two, step0), FMul(Two, step1))

\* The Jacobian undistort estimates at x by central differences, with
\* step = np.maximum(eps, kRelStepSize * x).
Jacobian(self, x) ==
  JacobianWithSteps(self, x[1], x[2],
                    FMax(MachEps, FMul(kRelStepSize, x[1])),
                    FMax(MachEps, FMul(kRelStepSize, x[2])))

\* sx = jinv @ rhs; x[i,:] -= sx
NewtonStep(x, jinv, r0, r1) ==
  <<FSub(x[1], FAdd(FMul(jinv[1][1], r0), FMul(jinv[1][2], r1))),
    FSub(x[2], FAdd(FMul(jinv[2][1], r0), FMul(jinv[2][2], r1)))>>

\* rhs = (dx - p0)[i,:]
NewtonUpdate(x, jinv, dx, p0) ==
  NewtonStep(x, jinv, FSub(dx[1], p0[1]), FSub(dx[2], p0[2]))

\* The inner loop over the batch: np.linalg.inv has raised if any J is
\* singular.
UpdateBatch(x, p0, dx, jac_invs) ==
  IF \E i \in DOMAIN x : jac_invs[i] = "singular" THEN Raise(ErrLinAlg)
  ELSE Return([i \in DOMAIN x |-> NewtonUpdate(x[i], jac_invs[i], dx[i], p0[i])])

IterationAfterDistort(self, x, p0, d) ==
  IF d.err # "none" THEN d
  ELSE UpdateBatch(x, p0, d.ret, [i \in DOMAIN x |-> Inv2(Jacobian(self, x[i]))])

\* One pass of the outer loop over the whole batch: the distort calls raise
\* what distort_points raises.
undistort_iteration(self, x, p0) ==
  IterationAfterDistort(self, x, p0, distort_points(self, x))

RECURSIVE undistort_from(_, _, _, _)
UndistortNext(self, r, p0, i) ==
  IF r.err # "none" THEN r ELSE undistort_from(self, r.ret, p0, i + 1)

undistort_from(self, x, p0, i) ==
  IF i = kNumIterations THEN Return(x)
  ELSE UndistortNext(self, undistort_iteration(self, x, p0), p0, i)

undistort(self, pc_distorted) == undistort_from(self, pc_distorted, pc_distorted, 0)

----------------------------------------------------------------------------
(* Rectification: _icv_get_rectangles and get_undistort_camera.             *)

GridN == 9

\* The N*N sample pixels, rows first: points[k] = (x * x_step, y * y_step).
GridPoints(self) ==
  LET N == GridN
      x_step == FDiv(FromInt(self.w), FromInt(N - 1))
      y_step == FDiv(FromInt(self.h), FromInt(N - 1))
  IN [k \in 1..(N * N) |->
        <<FMul(FromInt((k - 1) % N), x_step),
          FMul(FromInt((k - 1) \div N), y_step)>>]

\* np.max / np.min of the non-empty set V of values; nan if one of them is.
MaxOf(V) ==
  IF \E v \in V : ~IsFinite(v) THEN FNaN
  ELSE CHOOSE v \in V : \A u \in V : FLe(u, v)

MinOf(V) ==
  IF \E v \in V : ~IsFinite(v) THEN FNaN
  ELSE CHOOSE v \in V : \A u \in V : FLe(v, u)

\* The second half of _icv_get_rectangles: outer and inner rectangle of the
\* undistorted grid pu.
Rectangles(pu) ==
  LET N == GridN
      all == 1..(N * N)
      left == {k \in all : (k - 1) % N = 0}
      right == {k \in all : (k - 1) % N = N - 1}
      top == {k \in all : (k - 1) \div N = 0}
      bottom == {k \in all : (k - 1) \div N = N - 1}
      pmax == <<MaxOf({pu[k][1] : k \in all}), MaxOf({pu[k][2] : k \in all})>>
      pmin == <<MinOf({pu[k][1] : k \in all}), MinOf({pu[k][2] : k \in all})>>
      xmin_i == MaxOf({pu[k][1] : k \in left})
      xmax_i == MinOf({pu[k][1] : k \in right})
      ymin_i == MaxOf({pu[k][2] : k \in top})
      ymax_i == MinOf({pu[k][2] : k \in bottom})
  IN [outer |-> [x |-> pmin[1], y |-> pmin[2],
                 width |-> FSub(pmax[1], pmin[1]),
                 height |-> FSub(pmax[2], pmin[2])],
      inner |-> [x |-> xmin_i, y |-> ymin_i,
                 width |-> FSub(xmax_i, xmin_i),
                 height |-> FSub(ymax_i, ymin_i)]]

\* get_undistort_camera after _icv_get_rectangles has returned rects.
UndistortCamera(self, alpha, rects) ==
  LET outer == rects.outer
      inner == rects.inner
      new_image_width == self.w
      new_image_height == self.h
      fx0 == FDiv(FromInt(new_image_width - 1), inner.width)
      fy0 == FDiv(FromInt(new_image_height - 1), inner.height)
      cx0 == FMul(FNeg(fx0), inner.x)
      cy0 == FMul(FNeg(fy0), inner.y)
      fx1 == FDiv(FromInt(new_image_width - 1), outer.width)
      fy1 == FDiv(FromInt(new_image_height - 1), outer.height)
      cx1 == FMul(FNeg(fx1), outer.x)
      cy1 == FMul(FNeg(fy1), outer.y)
      na == FSub(One, alpha)
      fx == FAdd(FMul(fx0, na), FMul(fx1, alpha))
      fy == FAdd(FMul(fy0, na), FMul(fy1, alpha))
      cx == FAdd(FMul(cx0, na), FMul(cx1, alpha))
      cy == FAdd(FMul(cy0, na), FMul(cy1, alpha))
  IN Intrinsics("PINHOLE", new_image_width, new_image_height, <<fx, fy, cx, cy>>)

\* The two methods run to completion.
RectanglesOf(u) == IF u.err # "none" THEN u ELSE Return(Rectangles(u.ret))

_icv_get_rectangles(self) ==
  RectanglesOf(undistort(self, to_camera_points(self, GridPoints(self))))

CameraOf(self, alpha, r) ==
  IF r.err # "none" THEN r ELSE UndistortCamera(self, alpha, r.ret)

get_undistort_camera(self, alpha) == CameraOf(self, alpha, _icv_get_rectangles(self))

----------------------------------------------------------------------------
(* State.  heap holds the Intrinsics objects created so far (no method      *)
(* assigns to a field of an existing object), made how each one was made,   *)
(* call the last call with its outcome, und the frame of an undistort call  *)
(* in progress.                                                             *)

VARIABLES heap, made, call, und

vars == <<heap, made, call, und>>

MaxObjects == 3
MaxParamLen == 13

NoCall == [op |-> "none"]
Idle == [active |-> FALSE]

\* Inputs of the constructor.
KindInputs == SUPPORTED_CAMERA_MODELS \cup {"FISHEYE", "SIMPLE"}
SizeInputs == {<<640, 480>>, <<5, 3>>}

ParamPool ==
  <<FromInt(500), FromInt(400), FromInt(320), FromInt(240), Dec(-1, -1),
    Dec(1, -2), Dec(1, -3), Dec(-2, -3), Dec(3, -3), Dec(4, -3), Dec(5, -3),
    Dec(6, -3), Dec(7, -3), Dec(8, -3), Dec(9, -3)>>

ParamInput(n) == SubSeq(ParamPool, 1, n)

\* Inputs of scale, resize and crop.
ScaleInputs ==
  {<<Dec(5, -1), Dec(5, -1)>>, <<FromInt(2), Dec(5, -1)>>,
   <<Dec(333, -3), Dec(333, -3)>>, <<Dec(1, -1), Dec(1, -1)>>}
ResizeInputs == {<<320, 240>>} \cup {<<heap[1].w, heap[1].h>> : i \in {1} \cap DOMAIN heap}
TopLeftInputs == {<<Dec(105, -1), FromInt(20)>>, <<FZero, FZero>>}
CropSizeInputs == {<<100, 50>>}

Init ==
  /\ heap = <<>>
  /\ made = <<>>
  /\ call = NoCall
  /\ und = Idle

\* A call that returns a new object, or raises.
Finish(op, self, args, out) ==
  /\ call' = [op |-> op, self |-> self, args |-> args, out |-> out]
  /\ IF out.err = "none"
       THEN /\ heap' = Append(heap, out.ret)
            /\ made' = Append(made, [op |-> op, self |-> self, args |-> args])
       ELSE UNCHANGED <<heap, made>>
  /\ UNCHANGED und

Construct(kind, size, n) ==
  /\ heap = <<>>
  /\ Finish("Intrinsics", 0, <<kind, size, ParamInput(n)>>,
            Intrinsics(kind, size[1], size[2], ParamInput(n)))

ReadParams(i) ==
  /\ call' = [op |-> "params", self |-> i, args |-> <<>>,
              out |-> Return(params_of(heap[i]))]
  /\ UNCHANGED <<heap, made, und>>

Scale(i, s) ==
  /\ Len(heap) < MaxObjects
  /\ Finish("scale", i, s, scale(heap[i], s))

Resize(i, sz) ==
  /\ Len(heap) < MaxObjects
  /\ Finish("resize", i, sz, resize(heap[i], sz))

Crop(i, tl, sz) ==
  /\ Len(heap) < MaxObjects
  /\ Finish("crop", i, <<tl, sz>>, crop(heap[i], tl, sz))

Next ==
  \/ \E kind \in KindInputs, size \in SizeInputs, n \in 0..MaxParamLen :
       Construct(kind, size, n)
  \/ \E i \in DOMAIN heap : ReadParams(i)
  \/ \E i \in DOMAIN heap, s \in ScaleInputs : Scale(i, s)
  \/ \E i \in DOMAIN heap, sz \in ResizeInputs : Resize(i, sz)
  \/ \E i \in DOMAIN heap, tl \in TopLeftInputs, sz \in CropSizeInputs :
       Crop(i, tl, sz)

Spec == Init /\ [][Next]_vars

----------------------------------------------------------------------------
(* The projection pipeline, on a camera that exists.                        *)

MaxBatch == 2

BatchesOf(S) == UNION {[1..n -> S] : n \in 0..MaxBatch}

F500 == FromInt(500)
F320 == FromInt(320)
F240 == FromInt(240)

\* Constructor arguments of the cameras the pipeline is exercised on; the
\* OPENCV5 coefficients are those of from_test_model.
CameraInputs ==
  {<<"PINHOLE", <<640, 480>>, <<F500, F500, F320, F240>>>>,
   <<"SIMPLE_PINHOLE", <<640, 480>>, <<F500, F320, F240>>>>,
   <<"SIMPLE_RADIAL", <<640, 480>>, <<F500, F320, F240, FZero>>>>,
   <<"SIMPLE_RADIAL", <<640, 480>>, <<F500, F320, F240, Dec(-1, -1)>>>>,
   <<"SIMPLE_RADIAL", <<640, 480>>, <<F500, F320, F240, Dec(1, -1)>>>>,
   <<"RADIAL", <<640, 480>>, <<F500, F320, F240, FZero, FZero>>>>,
   <<"RADIAL", <<640, 480>>, <<F500, F320, F240, Dec(-1, -1), Dec(1, -2)>>>>,
   <<"OPENCV5", <<640, 480>>,
     <<F500, F500, F320, F240, FZero, FZero, FZero, FZero, FZero>>>>,
   <<"OPENCV5", <<640, 480>>,
     <<Dec(53591573, -5), Dec(53591573, -5), Dec(34228315, -5),
       Dec(23557083, -5), Dec(-26637261, -8), Dec(-38588899, -9),
       Dec(17831947, -10), Dec(-28122100, -11), Dec(23839153, -8)>>>>,
   <<"OPENCV", <<640, 480>>,
     <<F500, F500, F320, F240, Dec(-1, -1), Dec(1, -2), Dec(1, -3), Dec(-1, -3)>>>>,
   <<"FULL_OPENCV", <<640, 480>>,
     <<F500, F500, F320, F240, Dec(-1, -1), Dec(1, -2), Dec(1, -3), Dec(-1, -3),
       Dec(1, -3), FZero, FZero, FZero>>>>,
   <<"OPENCV_FISHEYE", <<640, 480>>,
     <<F500, F500, F320, F240, Dec(-1, -1), Dec(1, -2), Dec(1, -3), Dec(-1, -3)>>>>,
   <<"FOV", <<640, 480>>, <<F500, F500, F320, F240, One>>>>}

\* 3D points in the camera frame: in front of the camera, at the clamp, on
\* the camera plane and behind it.
Point3Inputs ==
  {<<FZero, FZero, FromInt(10)>>, <<FromInt(1), FromInt(-2), FromInt(4)>>,
   <<Dec(5, -1), Dec(25, -2), Dec(5, -1)>>, <<FromInt(3), FromInt(4), Dec(2, -3)>>,
   <<FromInt(1), FromInt(-2), Dec(1, -3)>>, <<FromInt(1), FromInt(1), FZero>>,
   <<FromInt(-1), FromInt(2), FromInt(-1)>>}

\* 2D points of the camera plane, within one normalized unit.
Point2Inputs ==
  {<<One, FZero>>, <<Dec(5, -1), Dec(5, -1)>>, <<FZero, FZero>>,
   <<FromInt(-1), Dec(5, -1)>>}

InitCamera ==
  /\ \E a \in CameraInputs :
       /\ Intrinsics(a[1], a[2][1], a[2][2], a[3]).err = "none"
       /\ heap = <<Intrinsics(a[1], a[2][1], a[2][2], a[3]).ret>>
       /\ made = <<[op |-> "Intrinsics", self |-> 0, args |-> a]>>
  /\ call = NoCall
  /\ und = Idle

\* A call that returns values, or raises.  The methods below read the object
\* and write nothing, so a behaviour makes one such call: what a second call
\* returns does not depend on the first.
Answer(op, self, args, out) ==
  /\ call = NoCall
  /\ call' = [op |-> op, self |-> self, args |-> args, out |-> out]
  /\ UNCHANGED <<heap, made, und>>

ProjectPoints(i, pc3d) ==
  Answer("project_points", i, pc3d, Return(project_points(heap[i], pc3d)))

ProjectAndDistortPoints(i, pc3d) ==
  Answer("project_and_distort_points", i, pc3d,
         project_and_distort_points(heap[i], pc3d))

Camera2ImagePoints(i, pc3d) ==
  Answer("camera2image_points", i, pc3d, camera2image_points(heap[i], pc3d))

DistortPoints(i, pts) ==
  Answer("distort_points", i, pts, distort_points(heap[i], pts))

ToImagePoints(i, pts) ==
  Answer("to_image_points", i, pts, Return(to_image_points(heap[i], pts)))

ToCameraPoints(i, pts) ==
  Answer("to_camera_points", i, pts, Return(to_camera_points(heap[i], pts)))

NextProject ==
  \/ \E i \in DOMAIN heap, b \in BatchesOf(Point3Inputs) : ProjectPoints(i, b)
  \/ \E i \in DOMAIN heap, b \in BatchesOf(Point3Inputs) :
       ProjectAndDistortPoints(i, b)
  \/ \E i \in DOMAIN heap, b \in BatchesOf(Point3Inputs) : Camera2ImagePoints(i, b)
  \/ \E i \in DOMAIN heap, b \in BatchesOf(Point2Inputs) : DistortPoints(i, b)
  \/ \E i \in DOMAIN heap, b \in BatchesOf(Point2Inputs) : ToImagePoints(i, b)
  \/ \E i \in DOMAIN heap, b \in BatchesOf(Point2Inputs) : ToCameraPoints(i, b)

SpecProject == InitCamera /\ [][NextProject]_vars

----------------------------------------------------------------------------
(* undistort, one pass of its outer loop per step.                          *)

\* undistort is entered: x and p0 are copies of the argument, i is 0.
UndistortCall(i, pts) ==
  /\ call = NoCall
  /\ ~und.active
  /\ und' = [active |-> TRUE, caller |-> "undistort", self |-> i, alpha |-> FZero,
             i |-> 0, x |-> pts, p0 |-> pts]
  /\ UNCHANGED <<heap, made, call>>

\* One iteration of `for i in range(kNumIterations)`; an exception leaves
\* undistort, and its caller too.
UndistortIteration ==
  /\ und.active
  /\ und.i < kNumIterations
  /\ \E r \in {undistort_iteration(heap[und.self], und.x, und.p0)} :
       IF r.err = "none"
         THEN /\ und' = [und EXCEPT !.x = r.ret, !.i = @ + 1]
              /\ UNCHANGED call
         ELSE /\ und' = Idle
              /\ call' = [op |-> und.caller, self |-> und.self,
                          args |-> IF und.caller = "undistort" THEN und.p0
                                   ELSE und.alpha,
                          out |-> r]
  /\ UNCHANGED <<heap, made>>

\* The loop is over: return x.
UndistortReturn ==
  /\ und.active
  /\ und.caller = "undistort"
  /\ und.i = kNumIterations
  /\ call' = [op |-> "undistort", self |-> und.self, args |-> und.p0,
              out |-> Return(und.x)]
  /\ und' = Idle
  /\ UNCHANGED <<heap, made>>

NextUndistort ==
  \/ \E i \in DOMAIN heap, b \in BatchesOf(Point2Inputs) : UndistortCall(i, b)
  \/ UndistortIteration
  \/ UndistortReturn

SpecUndistort == InitCamera /\ [][NextUndistort]_vars

----------------------------------------------------------------------------
(* get_undistort_camera: the grid, its undistortion (the steps above), the  *)
(* rectangles and the new camera.                                           *)

AlphaInputs == {FZero, Dec(5, -1), One}

\* Cameras the planner is exercised on: mild and strong barrel distortion,
\* the calibration of from_test_model, a mirrored camera (negative focal
\* length), and two kinds distort_points raises for.
RectifyInputs ==
  {<<"SIMPLE_RADIAL", <<640, 480>>, <<F500, F320, F240, Dec(-1, -1)>>>>,
   <<"SIMPLE_RADIAL", <<640, 480>>, <<F500, F320, F240, Dec(-3, -1)>>>>,
   <<"SIMPLE_RADIAL", <<640, 480>>, <<FromInt(-500), F320, F240, FZero>>>>,
   <<"RADIAL", <<640, 480>>, <<F500, F320, F240, Dec(-1, -1), Dec(1, -2)>>>>,
   <<"OPENCV5", <<640, 480>>,
     <<Dec(53591573, -5), Dec(53591573, -5), Dec(34228315, -5),
       Dec(23557083, -5), Dec(-26637261, -8), Dec(-38588899, -9),
       Dec(17831947, -10), Dec(-28122100, -11), Dec(23839153, -8)>>>>,
   <<"PINHOLE", <<640, 480>>, <<F500, F500, F320, F240>>>>,
   <<"OPENCV", <<640, 480>>,
     <<F500, F500, F320, F240, Dec(-1, -1), Dec(1, -2), Dec(1, -3), Dec(-1, -3)>>>>}

InitRectify ==
  /\ \E a \in RectifyInputs :
       /\ Intrinsics(a[1], a[2][1], a[2][2], a[3]).err = "none"
       /\ heap = <<Intrinsics(a[1], a[2][1], a[2][2], a[3]).ret>>
       /\ made = <<[op |-> "Intrinsics", self |-> 0, args |-> a]>>
  /\ call = NoCall
  /\ und = Idle

\* get_undistort_camera(alpha) is entered and reaches undistort with the
\* grid in camera coordinates.
GetUndistortCameraCall(i, alpha) ==
  /\ call = NoCall
  /\ ~und.active
  /\ LET pts == to_camera_points(heap[i], GridPoints(heap[i]))
     IN und' = [active |-> TRUE, caller |-> "get_undistort_camera", self |-> i,
                alpha |-> alpha, i |-> 0, x |-> pts, p0 |-> pts]
  /\ UNCHANGED <<heap, made, call>>

\* undistort has returned: the rectangles, then the PINHOLE camera.
GetUndistortCameraReturn ==
  /\ und.active
  /\ und.caller = "get_undistort_camera"
  /\ und.i = kNumIterations
  /\ \E rects \in {Rectangles(und.x)} :
       \E out \in {UndistortCamera(heap[und.self], und.alpha, rects)} :
         /\ call' = [op |-> "get_undistort_camera", self |-> und.self,
                     args |-> und.alpha, out |-> out, rects |-> rects]
         /\ IF out.err = "none"
              THEN /\ heap' = Append(heap, out.ret)
                   /\ made' = Append(made, [op |-> "get_undistort_camera",
                                            self |-> und.self, args |-> und.alpha])
              ELSE UNCHANGED <<heap, made>>
  /\ und' = Idle

NextRectify ==
  \/ \E i \in DOMAIN heap, alpha \in AlphaInputs : GetUndistortCameraCall(i, alpha)
  \/ UndistortIteration
  \/ GetUndistortCameraReturn

SpecRectify == InitRectify /\ [][NextRectify]_vars

----------------------------------------------------------------------------
(* undistort on cameras whose Jacobian vanishes at a sample point: for      *)
(* SIMPLE_RADIAL with k1 = -2 the matrix J at (1, 0) is ((-4, 0), (0, 0)).  *)

SingularInputs ==
  {<<"SIMPLE_RADIAL", <<640, 480>>, <<F500, F320, F240, FromInt(-2)>>>>,
   <<"SIMPLE_RADIAL", <<640, 480>>, <<F500, F320, F240, Dec(-1, -1)>>>>}

InitSingular ==
  /\ \E a \in SingularInputs :
       /\ Intrinsics(a[1], a[2][1], a[2][2], a[3]).err = "none"
       /\ heap = <<Intrinsics(a[1], a[2][1], a[2][2], a[3]).ret>>
       /\ made = <<[op |-> "Intrinsics", self |-> 0, args |-> a]>>
  /\ call = NoCall
  /\ und = Idle

SpecSingular == InitSingular /\ [][NextUndistort]_vars

----------------------------------------------------------------------------
(* Properties.  `call` holds the last call with its arguments and outcome,  *)
(* `made[i]` the call that made heap[i].                                    *)

\* |a - b| <= tol, both finite
Within(a, b, tol) ==
  IsFinite(a) /\ IsFinite(b) /\ FLe(FAbs(FSub(a, b)), tol)

\* |a - b| <= rel * |b|, both finite
WithinRel(a, b, rel) ==
  IsFinite(a) /\ IsFinite(b) /\ FLe(FAbs(FSub(a, b)), FMul(rel, FAbs(b)))

\* C1: for every kind of the registry, constructing with a params list whose
\* length is the kind's declared n_params succeeds, and `params` read from a
\* constructed instance is exactly the list it was constructed from.
C1_ParamsRoundTrip ==
  /\ (call.op = "Intrinsics" /\ call.args[1] \in SUPPORTED_CAMERA_MODELS
        /\ Len(call.args[3]) = n_params(call.args[1]))
       => call.out.err = "none"
  /\ (call.op = "params" /\ made[call.self].op = "Intrinsics")
       => call.out.ret = made[call.self].args[3]

\* C2: for a PINHOLE or SIMPLE_PINHOLE camera, camera2image_points returns,
\* for every point with z > 1e-3, the pixel (fx*x/z + cx, fy*y/z + cy), the
\* disparity 1/z and valid = true.
C2_PinholeProjection ==
  (call.op = "camera2image_points"
     /\ heap[call.self].camera_model_name \in {"PINHOLE", "SIMPLE_PINHOLE"}
     /\ \E i \in DOMAIN call.args : FLt(Dec(1, -3), call.args[i][3]))
    => /\ call.out.err = "none"
       /\ \A i \in DOMAIN call.args :
            FLt(Dec(1, -3), call.args[i][3])
              => /\ call.out.ret.valid[i]
                 /\ Within(call.out.ret.disparity[i],
                           FDiv(One, call.args[i][3]), Dec(1, -6))
                 /\ Within(call.out.ret.p2d[i][1],
                           FAdd(FDiv(FMul(heap[call.self].fx, call.args[i][1]),
                                     call.args[i][3]), heap[call.self].cx),
                           Dec(1, -3))
                 /\ Within(call.out.ret.p2d[i][2],
                           FAdd(FDiv(FMul(heap[call.self].fy, call.args[i][2]),
                                     call.args[i][3]), heap[call.self].cy),
                           Dec(1, -3))

\* C3: distort_points returns its input unchanged when the distortion vector
\* has no nonzero coefficient (zero length for SIMPLE_PINHOLE and PINHOLE,
\* all zeros for SIMPLE_RADIAL, RADIAL and OPENCV5).
C3_ZeroDistortionIdentity ==
  (call.op = "distort_points" /\ call.args # <<>>
     /\ heap[call.self].camera_model_name
          \in {"SIMPLE_PINHOLE", "PINHOLE", "SIMPLE_RADIAL", "RADIAL", "OPENCV5"}
     /\ \A k \in DOMAIN heap[call.self].distortions :
          heap[call.self].distortions[k] = FZero)
    => /\ call.out.err = "none"
       /\ call.out.ret = call.args

\* C4: crop(top_left, crop_size) returns a camera with cx - top_left.x,
\* cy - top_left.y, the receiver's fx and fy, and the size crop_size.
C4_CropKeepsFocals ==
  call.op = "crop"
    => /\ call.out.err = "none"
       /\ call.out.ret.cx = FSub(heap[call.self].cx, call.args[1][1])
       /\ call.out.ret.cy = FSub(heap[call.self].cy, call.args[1][2])
       /\ call.out.ret.fx = heap[call.self].fx
       /\ call.out.ret.fy = heap[call.self].fy
       /\ call.out.ret.w = call.args[2][1]
       /\ call.out.ret.h = call.args[2][2]

\* C5: scale((sx, sy)) returns a camera with the size rounded half up from
\* (width*sx, height*sy) and fx*sx, fy*sy, cx*sx, cy*sy, for every kind.
C5_ScaleFormulas ==
  call.op = "scale"
    => /\ call.out.err = "none"
       /\ call.out.ret.w
            = FTrunc(FAdd(FMul(FromInt(heap[call.self].w), call.args[1]), Dec(5, -1)))
       /\ call.out.ret.h
            = FTrunc(FAdd(FMul(FromInt(heap[call.self].h), call.args[2]), Dec(5, -1)))
       /\ call.out.ret.fx = FMul(heap[call.self].fx, call.args[1])
       /\ call.out.ret.fy = FMul(heap[call.self].fy, call.args[2])
       /\ call.out.ret.cx = FMul(heap[call.self].cx, call.args[1])
       /\ call.out.ret.cy = FMul(heap[call.self].cy, call.args[2])

\* C6: resizing a scaled camera back to the size of the camera it was
\* scaled from restores that camera's fx, fy, cx and cy up to rounding.
C6_ScaleResizeRoundTrip ==
  (call.op = "resize" /\ made[call.self].op = "scale"
     /\ call.args = <<heap[made[call.self].self].w, heap[made[call.self].self].h>>)
    => /\ call.out.err = "none"
       /\ WithinRel(call.out.ret.fx, heap[made[call.self].self].fx, Dec(1, -6))
       /\ WithinRel(call.out.ret.fy, heap[made[call.self].self].fy, Dec(1, -6))
       /\ WithinRel(call.out.ret.cx, heap[made[call.self].self].cx, Dec(1, -6))
       /\ WithinRel(call.out.ret.cy, heap[made[call.self].self].cy, Dec(1, -6))

\* C7: for SIMPLE_RADIAL, RADIAL and OPENCV5 cameras, distorting what
\* undistort returns after its 17 iterations gives back the point within 1e-6.
C7_UndistortInvertsDistort ==
  (call.op = "undistort"
     /\ heap[call.self].camera_model_name \in {"SIMPLE_RADIAL", "RADIAL", "OPENCV5"})
    => /\ call.out.err = "none"
       /\ \A i \in DOMAIN call.args :
            /\ Within(DistortOne(heap[call.self], call.out.ret[i])[1],
                      call.args[i][1], Dec(1, -6))
            /\ Within(DistortOne(heap[call.self], call.out.ret[i])[2],
                      call.args[i][2], Dec(1, -6))

\* C8: the constructor fails with the unrecognized-model error for every
\* kind outside the registry, and with the parameter-count error for every
\* registry kind given a params list whose length is not its n_params.
C8_ConstructorErrors ==
  call.op = "Intrinsics"
    => /\ call.args[1] \notin SUPPORTED_CAMERA_MODELS
            => call.out.err = ErrNotRecognized
       /\ (call.args[1] \in SUPPORTED_CAMERA_MODELS
             /\ Len(call.args[3]) # n_params(call.args[1]))
            => call.out.err = ErrParamCount

\* C9: project_points returns for every point of the batch: valid iff
\* z > 1e-3 (not valid iff z <= 1e-3), disparity 1/max(z, 1e-3), finite
\* and positive, and the 2D point (x, y) times that disparity.
C9_ProjectPointsClamped ==
  call.op = "project_points"
    => /\ call.out.err = "none"
       /\ DOMAIN call.out.ret.p2d = DOMAIN call.args
       /\ DOMAIN call.out.ret.disparity = DOMAIN call.args
       /\ DOMAIN call.out.ret.valid = DOMAIN call.args
       /\ \A i \in DOMAIN call.args :
            /\ call.out.ret.valid[i] <=> FLt(Dec(1, -3), call.args[i][3])
            /\ ~call.out.ret.valid[i] <=> FLe(call.args[i][3], Dec(1, -3))
            /\ call.out.ret.disparity[i]
                 = FDiv(One, FMax(call.args[i][3], Dec(1, -3)))
            /\ IsFinite(call.out.ret.disparity[i])
            /\ FLt(FZero, call.out.ret.disparity[i])
            /\ call.out.ret.p2d[i]
                 = <<FMul(call.args[i][1], call.out.ret.disparity[i]),
                     FMul(call.args[i][2], call.out.ret.disparity[i])>>
            /\ IsFinite(call.out.ret.p2d[i][1])
            /\ IsFinite(call.out.ret.p2d[i][2])

\* project_points has answered a batch of two points, one at or behind the
\* clamp and one in front of it.
C9_ClampedBatchAnswered ==
  /\ call.op = "project_points"
  /\ Len(call.args) = 2
  /\ FLe(call.args[1][3], Dec(1, -3))
  /\ FLt(Dec(1, -3), call.args[2][3])
  /\ ~call.out.ret.valid[1]
  /\ call.out.ret.valid[2]

\* C10: get_undistort_camera raises, and returns no camera, whenever the
\* inner rectangle has a non-positive width or height.
C10_DegenerateRectangleRaises ==
  (call.op = "get_undistort_camera" /\ "rects" \in DOMAIN call
     /\ (FLe(call.rects.inner.width, FZero) \/ FLe(call.rects.inner.height, FZero)))
    => call.out.err # "none"

\* C11: in undistort on a batch, a Jacobian that is singular for one point
\* does not abort the batch: every point that undistort answers when it is
\* given alone gets that same answer in the batch.
C11_SingularPointIsolated ==
  call.op = "undistort"
    => \A i \in DOMAIN call.args :
         undistort(heap[call.self], <<call.args[i]>>).err = "none"
           => /\ call.out.err = "none"
              /\ call.out.ret[i]
                   = undistort(heap[call.self], <<call.args[i]>>).ret[1]

\* C12: distort_points raises its OpenCv-models error for every OPENCV,
\* FULL_OPENCV and OPENCV_FISHEYE camera, its not-implemented error for every
\* other kind with a non-empty distortion vector and no implemented model,
\* and returns one point per input point for SIMPLE_RADIAL, RADIAL, OPENCV5.
C12_DistortErrors ==
  call.op = "distort_points"
    => /\ heap[call.self].camera_model_name \in {"OPENCV", "FULL_OPENCV", "OPENCV_FISHEYE"}
            => call.out.err = ErrOpenCvDistort
       /\ (heap[call.self].camera_model_name
             \notin {"OPENCV", "FULL_OPENCV", "OPENCV_FISHEYE",
                     "SIMPLE_RADIAL", "RADIAL", "OPENCV5"}
           /\ Len(heap[call.self].distortions) > 0)
            => call.out.err = ErrNotImplemented
       /\ heap[call.self].camera_model_name \in {"SIMPLE_RADIAL", "RADIAL", "OPENCV5"}
            => /\ call.out.err = "none"
               /\ DOMAIN call.out.ret = DOMAIN call.args
               /\ \A i \in DOMAIN call.args :
                    IsFinite(call.out.ret[i][1]) /\ IsFinite(call.out.ret[i][2])

\* distort_points has raised on two points for a FOV camera.
C12_FovDistortRaised ==
  /\ call.op = "distort_points"
  /\ heap[call.self].camera_model_name = "FOV"
  /\ Len(heap[call.self].distortions) = 1
  /\ Len(call.args) = 2
  /\ call.out.err = ErrNotImplemented

\* C13: for OPENCV, FULL_OPENCV and OPENCV_FISHEYE cameras,
\* project_and_distort_points returns the 2D points of the external
\* projection-and-distortion routine with the disparity and the validity of
\* project_points.
C13_OpenCvProjectAndDistort ==
  (call.op = "project_and_distort_points" /\ call.args # <<>>
     /\ heap[call.self].camera_model_name \in {"OPENCV", "FULL_OPENCV", "OPENCV_FISHEYE"})
    => /\ call.out.err = "none"
       /\ heap[call.self].camera_model_name \in {"OPENCV", "FULL_OPENCV"}
            => call.out.ret.p2d
                 = cv2_projectPoints(call.args, heap[call.self].distortions)
       /\ call.out.ret.disparity = project_points(heap[call.self], call.args).disparity
       /\ call.out.ret.valid = project_points(heap[call.self], call.args).valid

\* C14: the grid get_undistort_camera samples is 9 x 9 pixel coordinates
\* evenly spaced over [0, width-1] x [0, height-1]: first column at x = 0,
\* last column at x = width-1, first row at y = 0, last row at y = height-1,
\* no sample outside the image.
C14_GridInsideImage ==
  (und.active /\ und.caller = "get_undistort_camera")
    => /\ Len(GridPoints(heap[und.self])) = 81
       /\ und.p0 = to_camera_points(heap[und.self], GridPoints(heap[und.self]))
       /\ \A k \in DOMAIN GridPoints(heap[und.self]) :
            /\ GridPoints(heap[und.self])[k][1]
                 = FDiv(FMul(FromInt((k - 1) % 9), FromInt(heap[und.self].w - 1)),
                        FromInt(8))
            /\ GridPoints(heap[und.self])[k][2]
                 = FDiv(FMul(FromInt((k - 1) \div 9), FromInt(heap[und.self].h - 1)),
                        FromInt(8))
            /\ FLe(FZero, GridPoints(heap[und.self])[k][1])
            /\ FLe(GridPoints(heap[und.self])[k][1], FromInt(heap[und.self].w - 1))
            /\ FLe(FZero, GridPoints(heap[und.self])[k][2])
            /\ FLe(GridPoints(heap[und.self])[k][2], FromInt(heap[und.self].h - 1))

\* C15: undistort always ends by returning after exactly 17 passes of its
\* outer loop, each of which updates every point once: the loop counter of a
\* call in progress only steps by one with all points kept, and a call
\* ends only at counter 17, without an error and with one output point per
\* input point.
C15_SeventeenIterations ==
  [][/\ (und.active /\ und'.active)
          => /\ und'.i = und.i + 1
             /\ DOMAIN und'.x = DOMAIN und.x
     /\ (und.active /\ ~und'.active)
          => /\ und.i = kNumIterations
             /\ call'.op = "undistort"
             /\ call'.out.err = "none"
             /\ DOMAIN call'.out.ret = DOMAIN call'.args]_vars

\* C16: over any sequence of scale, resize and crop calls from a constructed
\* Intrinsics, every call leaves every existing object (its receiver among
\* them) as it was, and every object it returns has the kind and the
\* distortion vector of the original and as many params as the kind's
\* n_params.
C16_DerivedKeepKindAndDistortions ==
  [][/\ \A i \in DOMAIN heap : i \in DOMAIN heap' /\ heap'[i] = heap[i]
     /\ \A i \in (DOMAIN heap') \ (DOMAIN heap) :
          made'[i].op \in {"scale", "resize", "crop"}
            => /\ call'.out.err = "none" /\ call'.out.ret = heap'[i]
               /\ heap'[i].camera_model_name = heap[made'[i].self].camera_model_name
               /\ heap'[i].camera_model_name = heap[1].camera_model_name
               /\ heap'[i].distortions = heap[made'[i].self].distortions
               /\ heap'[i].distortions = heap[1].distortions
               /\ Len(params_of(heap'[i])) = n_params(heap'[i].camera_model_name)]_vars

\* A camera with distortion coefficients has been scaled and the scaled
\* camera cropped.
C16_ScaledThenCropped ==
  /\ Len(heap) = 3
  /\ made[2].op = "scale" /\ made[2].self = 1
  /\ made[3].op = "crop" /\ made[3].self = 2
  /\ Len(heap[1].distortions) = 5
  /\ heap[3].distortions = heap[1].distortions
  /\ call.op = "crop" /\ call.out.err = "none"

====
